---- MODULE Spec2Model ----
(***************************************************************************)
(* The binary search tree of go/tree/tree.go, the bounded queue of         *)
(* go/queue/queue.go, the singly linked list of go/list/list.go, the heap  *)
(* of the heap package, the stack of go/stack/stack.go and the binary      *)
(* searches of go/container/container.go as state machines.  Each          *)
(* structure has its own variables and its own specification; a            *)
(* specification leaves the other structures at their zero values.         *)
(*                                                                         *)
(* Nodes are heap cells 1..MaxNodes; Nil (0) is the nil pointer.  A cell   *)
(* that was never allocated holds the zero value (key 0, nil links).  A    *)
(* node removed by Delete is referenced only by Delete's local n; when     *)
(* Delete returns and nothing refers to the node any more, its cell is     *)
(* reclaimed (read as the zero value again) and is never handed out again. *)
(***************************************************************************)
EXTENDS Integers, Sequences, FiniteSets

\* Bounds of the model.
MaxNodes == 5
MaxKey == 3
MaxReadNodes == 4

Nil == 0
Nodes == 1..MaxNodes
Ptrs == 0..MaxNodes
KeySet == 1..MaxKey

\* The two-thread runs: a Delete that moves a successor y which is not n's
\* right child, with distinct keys throughout, takes four nodes and four keys.
MaxConcNodes == 4
MaxConcKey == 4
ConcKeySet == 1..MaxConcKey

VARIABLES
    Root,     \* BinaryTree.Root
    Key,      \* Node.Key, per cell
    Parent,   \* Node.Parent, per cell
    Left,     \* Node.Left, per cell
    Right,    \* Node.Right, per cell
    nAlloc,   \* number of &Node{} allocations so far
    live,     \* history: per key, Insert(key) calls minus Delete(key) calls that found it
    res,      \* the last call: its name, argument and what it returned
    pc,       \* where a Delete that runs step by step stands ("idle": none runs)
    dn,       \* that Delete's local n
    dy,       \* that Delete's local y
    head,     \* BoundedQueue.head
    tail,     \* BoundedQueue.tail
    len,      \* BoundedQueue.len
    buf,      \* BoundedQueue.buf, a slice: its elements, in order
    cap,      \* BoundedQueue.cap
    items,    \* history: the values Enqueue accepted and Dequeue has not yet returned
    qres,     \* the last queue call: its name, argument and what it returned
    listHead, \* List.head
    listElem, \* list Node.elem, per cell
    listNext, \* list Node.next, per cell
    listAlloc, \* number of list nodes allocated so far
    lres,     \* the last list call: its name, argument and what it returned
    size,     \* Heap.size
    buffer,   \* Heap.buffer
    hres,     \* the last heap call
    stackBuf, \* SimpleStack.buf
    top,      \* SimpleStack.top
    pushed,   \* history: the values pushed and not yet popped, oldest first
    sres,     \* the last stack call: its name, argument and what it returned
    values,   \* Container.values
    cres      \* the last container call: its name, needle and the index returned

treeVars == <<Root, Key, Parent, Left, Right>>
deleteVars == <<pc, dn, dy>>
queueVars == <<head, tail, len, buf, cap, items, qres>>
listVars == <<listHead, listElem, listNext, listAlloc, lres>>
heapVars == <<size, buffer, hres>>
stackVars == <<stackBuf, top, pushed, sres>>
containerVars == <<values, cres>>
otherVars == <<listVars, heapVars, stackVars, containerVars>>
vars == <<Root, Key, Parent, Left, Right, nAlloc, live, res, pc, dn, dy,
          head, tail, len, buf, cap, items, qres,
          listHead, listElem, listNext, listAlloc, lres,
          size, buffer, hres,
          stackBuf, top, pushed, sres,
          values, cres>>

\* The tree and its cells as one value, for the operators below.
Tree == [Root |-> Root, Key |-> Key, Parent |-> Parent, Left |-> Left, Right |-> Right]

----------------------------------------------------------------------------
\* Search with the comparison of the descent reversed.
RECURSIVE SearchFromReversed(_, _, _)
SearchFromReversed(t, n, key) ==
    IF n # Nil /\ t.Key[n] # key
    THEN IF key > t.Key[n]
         THEN SearchFromReversed(t, t.Left[n], key)
         ELSE SearchFromReversed(t, t.Right[n], key)
    ELSE n

\* Search: iterative descent from the root (tree.go 118-128).
RECURSIVE SearchFrom(_, _, _)
SearchFrom(t, n, key) ==
    IF n # Nil /\ t.Key[n] # key
    THEN IF key < t.Key[n]
         THEN SearchFrom(t, t.Left[n], key)
         ELSE SearchFrom(t, t.Right[n], key)
    ELSE n

Search(t, key) == SearchFrom(t, t.Root, key)

\* rec descending into the right subtree for a smaller key.
RECURSIVE recWrongSide(_, _, _, _)
recWrongSide(t, n, k, key) ==
    IF n = Nil \/ t.Key[n] = key THEN n
    ELSE IF k < t.Key[n] THEN recWrongSide(t, t.Right[n], k, key)
    ELSE recWrongSide(t, t.Right[n], k, key)

\* RecursiveSearch's closure rec(n, k); key is the captured argument of
\* RecursiveSearch (tree.go 104-112).
RECURSIVE rec(_, _, _, _)
rec(t, n, k, key) ==
    IF n = Nil \/ t.Key[n] = key THEN n
    ELSE IF k < t.Key[n] THEN rec(t, t.Left[n], k, key)
    ELSE rec(t, t.Right[n], k, key)

\* RecursiveSearch(key) (tree.go 102-115).
RecursiveSearch(t, key) == rec(t, t.Root, key, key)

\* Node.min: leftmost descent from n (tree.go 130-135).
RECURSIVE min(_, _)
min(t, n) == IF n # Nil /\ t.Left[n] # Nil THEN min(t, t.Left[n]) ELSE n

\* Node.max: rightmost descent from n (tree.go 142-147).
RECURSIVE max(_, _)
max(t, n) == IF n # Nil /\ t.Right[n] # Nil THEN max(t, t.Right[n]) ELSE n

\* Min() calling max() for min().
MinByMax(t) == max(t, t.Root)

\* Min() and Max() (tree.go 138-140, 150-152).
Min(t) == min(t, t.Root)

Max(t) == max(t, t.Root)

\* Node.postOrder: left subtree, right subtree, the node (tree.go 66-75).
RECURSIVE postOrder(_, _, _)
postOrder(t, n, keys) ==
    IF n # Nil
    THEN Append(postOrder(t, t.Right[n], postOrder(t, t.Left[n], keys)), t.Key[n])
    ELSE keys

PostOrderWalk(t) == postOrder(t, t.Root, <<>>)

\* Node.preOrder: the node, left subtree, right subtree (tree.go 84-92).
RECURSIVE preOrder(_, _, _)
preOrder(t, n, keys) ==
    IF n # Nil
    THEN preOrder(t, t.Right[n], preOrder(t, t.Left[n], Append(keys, t.Key[n])))
    ELSE keys

PreOrderWalk(t) == preOrder(t, t.Root, <<>>)

\* inorder appending the node's key before its left subtree.
RECURSIVE inorderKeyFirst(_, _, _)
inorderKeyFirst(t, n, keys) ==
    IF n # Nil
    THEN inorderKeyFirst(t, t.Right[n],
                         inorderKeyFirst(t, t.Left[n], Append(keys, t.Key[n])))
    ELSE keys

\* Node.inorder: left subtree, the node, right subtree (tree.go 48-57).
RECURSIVE inorder(_, _, _)
inorder(t, n, keys) ==
    IF n # Nil
    THEN inorder(t, t.Right[n], Append(inorder(t, t.Left[n], keys), t.Key[n]))
    ELSE keys

InOrderWalk(t) == inorder(t, t.Root, <<>>)

\* Insert's descent: the last node visited, Nil on an empty tree (tree.go 23-30).
RECURSIVE InsertDescend(_, _, _, _)
InsertDescend(t, c, parent, key) ==
    IF c # Nil
    THEN IF key < t.Key[c]
         THEN InsertDescend(t, t.Left[c], c, key)
         ELSE InsertDescend(t, t.Right[c], c, key)
    ELSE parent

\* Insert's attachment with >= for >: an equal key goes to the left slot.
InsertAttachTiesLeft(t, parent, n) ==
    IF parent = Nil
    THEN [t EXCEPT !.Root = n]
    ELSE IF t.Key[parent] >= t.Key[n]
         THEN [t EXCEPT !.Left[parent] = n]
         ELSE [t EXCEPT !.Right[parent] = n]

\* Insert's attachment of the fresh node n under parent (tree.go 35-45).
InsertAttach(t, parent, n) ==
    IF parent = Nil
    THEN [t EXCEPT !.Root = n]
    ELSE IF t.Key[parent] > t.Key[n]
         THEN [t EXCEPT !.Left[parent] = n]
         ELSE [t EXCEPT !.Right[parent] = n]

\* Insert(key), n being the freshly allocated cell (tree.go 20-46).
Insert(t, n, key) ==
    LET parent == InsertDescend(t, t.Root, Nil, key)
        t1 == [t EXCEPT !.Key[n] = key, !.Parent[n] = parent]
    IN  InsertAttach(t1, parent, n)

\* Succ(k): the node Search finds, then min() of that node when it has a
\* right child, else the climb through Parent links (tree.go 155-172).
RECURSIVE SuccClimb(_, _, _)
SuccClimb(t, n, y) ==
    IF y # Nil /\ n = t.Right[y] THEN SuccClimb(t, y, t.Parent[y]) ELSE y

\* Succ(k) answering an absent key with the minimum of the tree.
SuccAbsentAsLeast(t, k) ==
    LET n == Search(t, k)
    IN  IF n = Nil THEN min(t, t.Root)
        ELSE IF t.Right[n] # Nil THEN min(t, n)
        ELSE SuccClimb(t, n, t.Parent[n])

Succ(t, k) ==
    LET n == Search(t, k)
    IN  IF n = Nil THEN n
        ELSE IF t.Right[n] # Nil THEN min(t, n)
        ELSE SuccClimb(t, n, t.Parent[n])

\* Pred(k): the mirror of Succ, with max() of the found node (tree.go 175-192).
RECURSIVE PredClimb(_, _, _)
PredClimb(t, n, y) ==
    IF y # Nil /\ n = t.Left[y] THEN PredClimb(t, y, t.Parent[y]) ELSE y

Pred(t, k) ==
    LET n == Search(t, k)
    IN  IF n = Nil THEN n
        ELSE IF t.Left[n] # Nil THEN max(t, n)
        ELSE PredClimb(t, n, t.Parent[n])

\* transplant without the update of v.Parent.
transplantKeepParent(t, u, v) ==
    IF t.Parent[u] = Nil
    THEN [t EXCEPT !.Root = v]
    ELSE IF u = t.Left[t.Parent[u]]
         THEN [t EXCEPT !.Left[t.Parent[u]] = v]
         ELSE [t EXCEPT !.Right[t.Parent[u]] = v]

\* transplant(u, v): v takes u's place under u's parent (tree.go 196-210).
transplant(t, u, v) ==
    LET t1 == IF t.Parent[u] = Nil
              THEN [t EXCEPT !.Root = v]
              ELSE IF u = t.Left[t.Parent[u]]
                   THEN [t EXCEPT !.Left[t.Parent[u]] = v]
                   ELSE [t EXCEPT !.Right[t.Parent[u]] = v]
    IN  IF v # Nil THEN [t1 EXCEPT !.Parent[v] = t1.Parent[u]] ELSE t1

\* The two-children case without transplant(y, y.Right): y is given n's right
\* subtree while it is still linked inside it.
DeleteTwoChildrenNoDetach(t, n) ==
    LET y == min(t, t.Right[n])
        t1 == IF t.Parent[y] # n
              THEN LET b == [t EXCEPT !.Right[y] = t.Right[n]]
                   IN  [b EXCEPT !.Parent[b.Right[y]] = y]
              ELSE t
        t2 == transplant(t1, n, y)
        t3 == [t2 EXCEPT !.Left[y] = t2.Left[n]]
    IN  [t3 EXCEPT !.Parent[t3.Left[y]] = y]

\* The two-children case without the final y.Left.Parent = y.
DeleteTwoChildrenStaleParent(t, n) ==
    LET y == min(t, t.Right[n])
        t1 == IF t.Parent[y] # n
              THEN LET a == transplant(t, y, t.Right[y])
                       b == [a EXCEPT !.Right[y] = a.Right[n]]
                   IN  [b EXCEPT !.Parent[b.Right[y]] = y]
              ELSE t
        t2 == transplant(t1, n, y)
    IN  [t2 EXCEPT !.Left[y] = t2.Left[n]]

\* Delete's two-children case, y being the minimum of n's right subtree
\* (tree.go 221-230).
DeleteTwoChildren(t, n) ==
    LET y == min(t, t.Right[n])
        t1 == IF t.Parent[y] # n
              THEN LET a == transplant(t, y, t.Right[y])
                       b == [a EXCEPT !.Right[y] = a.Right[n]]
                   IN  [b EXCEPT !.Parent[b.Right[y]] = y]
              ELSE t
        t2 == transplant(t1, n, y)
        t3 == [t2 EXCEPT !.Left[y] = t2.Left[n]]
    IN  [t3 EXCEPT !.Parent[t3.Left[y]] = y]

\* The statements of Delete's two-children case one by one, for a Delete that
\* another thread can observe between them (tree.go 223-230).

\* The statement transplant(y, y.Right) left out.
stmtDetachSkipped(t, y) == t

\* b.transplant(y, y.Right) (tree.go 223).
stmtDetach(t, y) == transplant(t, y, t.Right[y])

\* y.Right = n.Right (tree.go 224).
stmtSetRight(t, n, y) == [t EXCEPT !.Right[y] = t.Right[n]]

\* y.Right.Parent = y (tree.go 225).
stmtSetRightParent(t, y) == [t EXCEPT !.Parent[t.Right[y]] = y]

\* b.transplant(n, y) (tree.go 228).
stmtReplace(t, n, y) == transplant(t, n, y)

\* y.Left = n.Left (tree.go 229).
stmtSetLeft(t, n, y) == [t EXCEPT !.Left[y] = t.Left[n]]

\* y.Left.Parent = y (tree.go 230).
stmtSetLeftParent(t, y) == [t EXCEPT !.Parent[t.Left[y]] = y]

\* Delete's switch with the first case transplanting n.Left (nil) for n.Right.
DeleteNodeWrongChild(t, n) ==
    IF t.Left[n] = Nil THEN transplant(t, n, t.Left[n])
    ELSE IF t.Right[n] = Nil THEN transplant(t, n, t.Left[n])
    ELSE DeleteTwoChildren(t, n)

\* Delete's switch on the node n that Search found (tree.go 215-231).
DeleteNode(t, n) ==
    IF t.Left[n] = Nil THEN transplant(t, n, t.Right[n])
    ELSE IF t.Right[n] = Nil THEN transplant(t, n, t.Left[n])
    ELSE DeleteTwoChildren(t, n)

\* Delete(k) reads n.Left of the node Search returns without a nil check
\* (tree.go 214-216): on an absent key that read is a nil pointer dereference.
DeletePanics(t, k) == Search(t, k) = Nil

\* The removed node once Delete has returned: unless some pointer of the tree
\* still refers to it, the cell is garbage and reads as the zero value.
release(t, n) ==
    IF t.Root = n \/ \E m \in Nodes \ {n} : n \in {t.Left[m], t.Right[m], t.Parent[m]}
    THEN t
    ELSE [t EXCEPT !.Key[n] = 0, !.Parent[n] = Nil, !.Left[n] = Nil, !.Right[n] = Nil]

\* Delete(k) of a key Search finds (tree.go 213-232).
Delete(t, k) ==
    LET n == Search(t, k)
    IN  release(DeleteNode(t, n), n)

----------------------------------------------------------------------------
\* No BoundedQueue has been made: the zero value of the struct.
NoQueue ==
    /\ head = 0
    /\ tail = 0
    /\ len = 0
    /\ buf = <<>>
    /\ cap = 0
    /\ items = <<>>
    /\ qres = [op |-> "none", arg |-> 0, val |-> 0, flag |-> FALSE, err |-> "nil"]

----------------------------------------------------------------------------
(***************************************************************************)
(* The singly linked List[int] of list.go.  Its nodes are cells            *)
(* 1..MaxListNodes of their own; List never sets Node.prev, which stays    *)
(* nil and is left out.  A node taken out of the list is reclaimed when    *)
(* Delete returns, as the tree's nodes are.                                *)
(***************************************************************************)

\* Bounds of the list runs.
MaxListNodes == 4
MaxElem == 3

ListNodes == 1..MaxListNodes
ElemSet == 1..MaxElem

\* The list and its cells as one value, for the operators below.
List == [head |-> listHead, elem |-> listElem, next |-> listNext]

SetList(l) ==
    /\ listHead' = l.head
    /\ listElem' = l.elem
    /\ listNext' = l.next

\* The zero value List[T]{}: no node.
NoList ==
    /\ listHead = Nil
    /\ listElem = [n \in ListNodes |-> 0]
    /\ listNext = [n \in ListNodes |-> Nil]
    /\ listAlloc = 0
    /\ lres = [op |-> "New", arg |-> 0, node |-> Nil, outcome |-> "ok"]

\* No Heap has been made: the zero value of the struct.
NoHeap ==
    /\ size = 0
    /\ buffer = <<>>
    /\ hres = [op |-> "none", arg |-> 0]

\* NewSimpleStack(): make([]T, 0) and top 0, which is the zero value too.
NoStack ==
    /\ stackBuf = <<>>
    /\ top = 0
    /\ pushed = <<>>
    /\ sres = [op |-> "New", arg |-> 0, val |-> 0, flag |-> FALSE, err |-> "nil"]

\* No Container has been made: the zero value of the struct.
NoContainer ==
    /\ values = <<>>
    /\ cres = [op |-> "none", needle |-> 0, index |-> 0]

\* Nothing but the tree and the queue is in use.
NoOthers == NoList /\ NoHeap /\ NoStack /\ NoContainer

----------------------------------------------------------------------------
\* The empty tree, BinaryTree[T]{}.
EmptyTree ==
    /\ Root = Nil
    /\ Key = [n \in Nodes |-> 0]
    /\ Parent = [n \in Nodes |-> Nil]
    /\ Left = [n \in Nodes |-> Nil]
    /\ Right = [n \in Nodes |-> Nil]
    /\ nAlloc = 0
    /\ live = [k \in KeySet \cup ConcKeySet |-> 0]
    /\ res = [op |-> "New", arg |-> 0, node |-> Nil, keys |-> <<>>, outcome |-> "ok"]
    /\ pc = "idle"
    /\ dn = Nil
    /\ dy = Nil

Init == EmptyTree /\ NoQueue /\ NoOthers

Running == res.outcome # "panic"

SetTree(t) ==
    /\ Root' = t.Root
    /\ Key' = t.Key
    /\ Parent' = t.Parent
    /\ Left' = t.Left
    /\ Right' = t.Right

InsertStep(k) ==
    /\ Running
    /\ nAlloc < MaxNodes
    /\ SetTree(Insert(Tree, nAlloc + 1, k))
    /\ nAlloc' = nAlloc + 1
    /\ live' = [live EXCEPT ![k] = @ + 1]
    /\ res' = [op |-> "Insert", arg |-> k, node |-> nAlloc + 1, keys |-> <<>>, outcome |-> "ok"]
    /\ UNCHANGED <<deleteVars, queueVars, otherVars>>

\* Delete(k) of a key Search finds.
DeleteStep(k) ==
    /\ Running
    /\ ~DeletePanics(Tree, k)
    /\ SetTree(Delete(Tree, k))
    /\ live' = [live EXCEPT ![k] = @ - 1]
    /\ res' = [op |-> "Delete", arg |-> k, node |-> Search(Tree, k), keys |-> <<>>,
               outcome |-> "ok"]
    /\ UNCHANGED <<nAlloc, deleteVars, queueVars, otherVars>>

\* Delete(k) of a key Search does not find: the nil dereference ends the call
\* before any assignment.
DeletePanicStep(k) ==
    /\ Running
    /\ DeletePanics(Tree, k)
    /\ res' = [op |-> "Delete", arg |-> k, node |-> Nil, keys |-> <<>>, outcome |-> "panic"]
    /\ UNCHANGED <<treeVars, nAlloc, live, deleteVars, queueVars, otherVars>>

SearchStep(k) ==
    /\ Running
    /\ res' = [op |-> "Search", arg |-> k, node |-> Search(Tree, k), keys |-> <<>>,
               outcome |-> "ok"]
    /\ UNCHANGED <<treeVars, nAlloc, live, deleteVars, queueVars, otherVars>>

SuccStep(k) ==
    /\ Running
    /\ res' = [op |-> "Succ", arg |-> k, node |-> Succ(Tree, k), keys |-> <<>>,
               outcome |-> "ok"]
    /\ UNCHANGED <<treeVars, nAlloc, live, deleteVars, queueVars, otherVars>>

PredStep(k) ==
    /\ Running
    /\ res' = [op |-> "Pred", arg |-> k, node |-> Pred(Tree, k), keys |-> <<>>,
               outcome |-> "ok"]
    /\ UNCHANGED <<treeVars, nAlloc, live, deleteVars, queueVars, otherVars>>

InOrderWalkStep ==
    /\ Running
    /\ res' = [op |-> "InOrderWalk", arg |-> 0, node |-> Nil, keys |-> InOrderWalk(Tree),
               outcome |-> "ok"]
    /\ UNCHANGED <<treeVars, nAlloc, live, deleteVars, queueVars, otherVars>>

RecursiveSearchStep(k) ==
    /\ Running
    /\ res' = [op |-> "RecursiveSearch", arg |-> k, node |-> RecursiveSearch(Tree, k),
               keys |-> <<>>, outcome |-> "ok"]
    /\ UNCHANGED <<treeVars, nAlloc, live, deleteVars, queueVars, otherVars>>

\* Min() implemented by moving b.Root down to the minimum.
MinStepMovingRoot ==
    /\ Running
    /\ res' = [op |-> "Min", arg |-> 0, node |-> Min(Tree), keys |-> <<>>, outcome |-> "ok"]
    /\ Root' = Min(Tree)
    /\ UNCHANGED <<Key, Parent, Left, Right, nAlloc, live, deleteVars, queueVars, otherVars>>

MinStep ==
    /\ Running
    /\ res' = [op |-> "Min", arg |-> 0, node |-> Min(Tree), keys |-> <<>>, outcome |-> "ok"]
    /\ UNCHANGED <<treeVars, nAlloc, live, deleteVars, queueVars, otherVars>>

MaxStep ==
    /\ Running
    /\ res' = [op |-> "Max", arg |-> 0, node |-> Max(Tree), keys |-> <<>>, outcome |-> "ok"]
    /\ UNCHANGED <<treeVars, nAlloc, live, deleteVars, queueVars, otherVars>>

PreOrderWalkStep ==
    /\ Running
    /\ res' = [op |-> "PreOrderWalk", arg |-> 0, node |-> Nil, keys |-> PreOrderWalk(Tree),
               outcome |-> "ok"]
    /\ UNCHANGED <<treeVars, nAlloc, live, deleteVars, queueVars, otherVars>>

PostOrderWalkStep ==
    /\ Running
    /\ res' = [op |-> "PostOrderWalk", arg |-> 0, node |-> Nil, keys |-> PostOrderWalk(Tree),
               outcome |-> "ok"]
    /\ UNCHANGED <<treeVars, nAlloc, live, deleteVars, queueVars, otherVars>>

----------------------------------------------------------------------------
(***************************************************************************)
(* Delete(k) run statement by statement by one thread, while a second      *)
(* thread calls Search and InOrderWalk on the same tree.  The tree has no  *)
(* lock (tree.go has none), so the second thread's calls can fall between  *)
(* any two statements of Delete.  pc names the statement Delete is about   *)
(* to run.                                                                 *)
(***************************************************************************)

\* Delete returns: n goes out of scope, the call is over.
DeleteReturns(t) ==
    /\ SetTree(release(t, dn))
    /\ live' = [live EXCEPT ![Key[dn]] = @ - 1]
    /\ res' = [op |-> "Delete", arg |-> Key[dn], node |-> dn, keys |-> <<>>, outcome |-> "ok"]
    /\ pc' = "idle"
    /\ dn' = Nil
    /\ dy' = Nil
    /\ UNCHANGED <<nAlloc, queueVars, otherVars>>

\* A statement of Delete in the middle of the call.
DeleteGoesOn(t, next) ==
    /\ SetTree(t)
    /\ pc' = next
    /\ UNCHANGED <<nAlloc, live, res, dn, dy, queueVars, otherVars>>

\* n := b.Search(k), for a key Search finds (tree.go 214).
DeleteBegin(k) ==
    /\ Running
    /\ pc = "idle"
    /\ Search(Tree, k) # Nil
    /\ dn' = Search(Tree, k)
    /\ pc' = "switch"
    /\ UNCHANGED <<treeVars, nAlloc, live, res, dy, queueVars, otherVars>>

\* case n.Left == nil: b.transplant(n, n.Right) (tree.go 216-217).
DeleteNoLeft ==
    /\ pc = "switch"
    /\ Left[dn] = Nil
    /\ DeleteReturns(transplant(Tree, dn, Right[dn]))

\* case n.Right == nil: b.transplant(n, n.Left) (tree.go 218-219).
DeleteNoRight ==
    /\ pc = "switch"
    /\ Left[dn] # Nil /\ Right[dn] = Nil
    /\ DeleteReturns(transplant(Tree, dn, Left[dn]))

\* default: y := n.Right.min(); if y.Parent != n (tree.go 220-222).
DeleteFindY ==
    /\ pc = "switch"
    /\ Left[dn] # Nil /\ Right[dn] # Nil
    /\ dy' = min(Tree, Right[dn])
    /\ pc' = IF Parent[min(Tree, Right[dn])] # dn THEN "detach" ELSE "replace"
    /\ UNCHANGED <<treeVars, nAlloc, live, res, dn, queueVars, otherVars>>

DeleteDetach ==
    /\ pc = "detach"
    /\ DeleteGoesOn(stmtDetach(Tree, dy), "detached")

DeleteSetRight ==
    /\ pc = "detached"
    /\ DeleteGoesOn(stmtSetRight(Tree, dn, dy), "rightSet")

DeleteSetRightParent ==
    /\ pc = "rightSet"
    /\ DeleteGoesOn(stmtSetRightParent(Tree, dy), "replace")

DeleteReplace ==
    /\ pc = "replace"
    /\ DeleteGoesOn(stmtReplace(Tree, dn, dy), "replaced")

DeleteSetLeft ==
    /\ pc = "replaced"
    /\ DeleteGoesOn(stmtSetLeft(Tree, dn, dy), "leftSet")

DeleteSetLeftParent ==
    /\ pc = "leftSet"
    /\ DeleteReturns(stmtSetLeftParent(Tree, dy))

\* One thread inserts and deletes, the Deletes statement by statement; the
\* other calls Search and InOrderWalk at any moment.
NextConcurrent ==
    \/ \E k \in ConcKeySet : pc = "idle" /\ nAlloc < MaxConcNodes /\ InsertStep(k)
    \/ \E k \in ConcKeySet : pc = "idle" /\ DeletePanicStep(k)
    \/ \E k \in ConcKeySet : DeleteBegin(k)
    \/ DeleteNoLeft
    \/ DeleteNoRight
    \/ DeleteFindY
    \/ DeleteDetach
    \/ DeleteSetRight
    \/ DeleteSetRightParent
    \/ DeleteReplace
    \/ DeleteSetLeft
    \/ DeleteSetLeftParent
    \/ \E k \in ConcKeySet : SearchStep(k)
    \/ InOrderWalkStep

SpecConcurrent == Init /\ [][NextConcurrent]_vars

----------------------------------------------------------------------------
(***************************************************************************)
(* BoundedQueue[int] of queue.go.  buf is a Go slice: append makes it one  *)
(* longer, whatever the capacity it was made with, and an index that is    *)
(* not below its length is a run-time panic.                               *)
(***************************************************************************)

\* Bounds of the queue runs: the capacities NewBoundedQueue is called with,
\* the values enqueued, how long append may make buf, and how far below zero
\* len may go.
MaxCap == 3
MaxVal == 2
MaxBuf == 4
MaxUnder == 2

ValSet == 1..MaxVal

\* The BoundedQueue as one value, for the operators below.
Queue == [head |-> head, tail |-> tail, len |-> len, buf |-> buf, cap |-> cap]

SetQueue(q) ==
    /\ head' = q.head
    /\ tail' = q.tail
    /\ len' = q.len
    /\ buf' = q.buf
    /\ cap' = q.cap

\* NewBoundedQueue(c): make([]T, 0, c) has length 0.
NewBoundedQueue(c) ==
    /\ head = 0
    /\ tail = 0
    /\ len = 0
    /\ buf = <<>>
    /\ cap = c
    /\ items = <<>>
    /\ qres = [op |-> "New", arg |-> c, val |-> 0, flag |-> FALSE, err |-> "nil"]

\* IsEmpty: len(b.buf) == 0.
IsEmpty(q) == Len(q.buf) = 0

\* Len: len(b.buf).
BoundedQueueLen(q) == Len(q.buf)

\* IsFull: b.len == b.cap.
IsFull(q) == q.len = q.cap

\* Enqueue(elem): the queue afterwards and the error returned.  b.buf[b.tail]
\* is slot tail + 1 of the sequence.
Enqueue(q, elem) ==
    IF IsFull(q) THEN [q |-> q, err |-> "queue overflow"]
    ELSE IF q.tail < q.len
    THEN IF q.tail < Len(q.buf)
         THEN [q |-> [q EXCEPT !.buf[q.tail + 1] = elem,
                               !.tail = (q.tail + 1) % q.cap,
                               !.len = q.len + 1],
               err |-> "nil"]
         ELSE [q |-> q, err |-> "panic"]
    ELSE [q |-> [q EXCEPT !.buf = Append(q.buf, elem),
                          !.tail = (q.tail + 1) % q.cap,
                          !.len = q.len + 1],
          err |-> "nil"]

\* Dequeue(): the queue afterwards, the value and the error returned; var v T
\* is 0.
Dequeue(q) ==
    IF IsEmpty(q) THEN [q |-> q, v |-> 0, err |-> "underflow"]
    ELSE IF q.head < Len(q.buf)
    THEN [q |-> [q EXCEPT !.len = q.len - 1, !.head = (q.head + 1) % q.cap],
          v |-> q.buf[q.head + 1],
          err |-> "nil"]
    ELSE [q |-> q, v |-> 0, err |-> "panic"]

\* No queue call has panicked.
QueueRunning == qres.err # "panic"

EnqueueStep(elem) ==
    /\ QueueRunning
    /\ LET r == Enqueue(Queue, elem)
       IN  /\ Len(r.q.buf) <= MaxBuf
           /\ SetQueue(r.q)
           /\ items' = IF r.err = "nil" THEN Append(items, elem) ELSE items
           /\ qres' = [op |-> "Enqueue", arg |-> elem, val |-> 0, flag |-> FALSE, err |-> r.err]
    /\ UNCHANGED <<treeVars, nAlloc, live, res, deleteVars, otherVars>>

DequeueStep ==
    /\ QueueRunning
    /\ LET r == Dequeue(Queue)
       IN  /\ r.q.len >= 0 - MaxUnder
           /\ SetQueue(r.q)
           /\ items' = IF r.err = "nil" /\ items # <<>> THEN Tail(items) ELSE items
           /\ qres' = [op |-> "Dequeue", arg |-> 0, val |-> r.v, flag |-> FALSE, err |-> r.err]
    /\ UNCHANGED <<treeVars, nAlloc, live, res, deleteVars, otherVars>>

IsEmptyStep ==
    /\ QueueRunning
    /\ qres' = [op |-> "IsEmpty", arg |-> 0, val |-> 0, flag |-> IsEmpty(Queue), err |-> "nil"]
    /\ UNCHANGED <<treeVars, nAlloc, live, res, deleteVars, head, tail, len, buf, cap, items, otherVars>>

LenStep ==
    /\ QueueRunning
    /\ qres' = [op |-> "Len", arg |-> 0, val |-> BoundedQueueLen(Queue), flag |-> FALSE, err |-> "nil"]
    /\ UNCHANGED <<treeVars, nAlloc, live, res, deleteVars, head, tail, len, buf, cap, items, otherVars>>

IsFullStep ==
    /\ QueueRunning
    /\ qres' = [op |-> "IsFull", arg |-> 0, val |-> 0, flag |-> IsFull(Queue), err |-> "nil"]
    /\ UNCHANGED <<treeVars, nAlloc, live, res, deleteVars, head, tail, len, buf, cap, items, otherVars>>

\* A queue of some capacity from 1 up, next to an empty tree that stays empty.
InitQueue == EmptyTree /\ NoOthers /\ \E c \in 1..MaxCap : NewBoundedQueue(c)

NextQueue ==
    \/ \E elem \in ValSet : EnqueueStep(elem)
    \/ DequeueStep
    \/ IsEmptyStep
    \/ LenStep
    \/ IsFullStep

SpecQueue == InitQueue /\ [][NextQueue]_vars

----------------------------------------------------------------------------
\* The calls of List.

\* Insert(e) with n the cell of the new node: node.next = l.head; l.head = &node.
ListInsert(l, n, e) ==
    [head |-> n,
     elem |-> [l.elem EXCEPT ![n] = e],
     next |-> [l.next EXCEPT ![n] = l.head]]

\* Head().
ListHead(l) == l.head

\* The loop of Delete: for c := prev; c != nil && c != node; c = c.next { prev = c }.
RECURSIVE DeleteLoop(_, _, _, _)
DeleteLoop(l, c, prev, node) ==
    IF c # Nil /\ c # node
    THEN DeleteLoop(l, l.next[c], c, node)
    ELSE prev

\* Delete(node): prev.next = node.next, for prev and node not nil.
ListDelete(l, node) ==
    LET prev == DeleteLoop(l, l.head, l.head, node)
    IN  [l EXCEPT !.next[prev] = l.next[node]]

\* Delete(node) dereferences nil: the list is empty or node is nil.
ListDeletePanics(l, node) == l.head = Nil \/ node = Nil

\* The loop of Search: the body's c = c.next, then the post statement's
\* c = c.next, which dereferences c again.
RECURSIVE SearchLoop(_, _, _)
SearchLoop(l, c, e) ==
    IF c = Nil \/ l.elem[c] = e
    THEN [node |-> c, outcome |-> "ok"]
    ELSE IF l.next[c] = Nil
         THEN [node |-> Nil, outcome |-> "panic"]
         ELSE SearchLoop(l, l.next[l.next[c]], e)

\* Search(e).
ListSearch(l, e) == SearchLoop(l, l.head, e)

\* The nodes from c on, in list order.
RECURSIVE ListFrom(_, _)
ListFrom(l, c) == IF c = Nil THEN <<>> ELSE <<c>> \o ListFrom(l, l.next[c])

\* Delete's argument goes out of scope: a node no longer in the list reads
\* as the zero value again.
listRelease(l, node) ==
    IF \E i \in DOMAIN ListFrom(l, l.head) : ListFrom(l, l.head)[i] = node
    THEN l
    ELSE [l EXCEPT !.elem[node] = 0, !.next[node] = Nil]

ListRunning == lres.outcome # "panic"

ListInsertStep(e) ==
    /\ ListRunning
    /\ listAlloc < MaxListNodes
    /\ listAlloc' = listAlloc + 1
    /\ SetList(ListInsert(List, listAlloc + 1, e))
    /\ lres' = [op |-> "Insert", arg |-> e, node |-> listAlloc + 1, outcome |-> "ok"]
    /\ UNCHANGED <<treeVars, nAlloc, live, res, deleteVars, queueVars,
                   heapVars, stackVars, containerVars>>

\* Delete(node) for a node of the list.
ListDeleteStep(node) ==
    /\ ListRunning
    /\ \E i \in DOMAIN ListFrom(List, listHead) : ListFrom(List, listHead)[i] = node
    /\ ~ListDeletePanics(List, node)
    /\ SetList(listRelease(ListDelete(List, node), node))
    /\ lres' = [op |-> "Delete", arg |-> node, node |-> node, outcome |-> "ok"]
    /\ UNCHANGED <<listAlloc, treeVars, nAlloc, live, res, deleteVars, queueVars,
                   heapVars, stackVars, containerVars>>

ListSearchStep(e) ==
    /\ ListRunning
    /\ lres' = [op |-> "Search", arg |-> e,
                node |-> ListSearch(List, e).node, outcome |-> ListSearch(List, e).outcome]
    /\ UNCHANGED <<listHead, listElem, listNext, listAlloc, treeVars, nAlloc, live, res,
                   deleteVars, queueVars, heapVars, stackVars, containerVars>>

ListHeadStep ==
    /\ ListRunning
    /\ lres' = [op |-> "Head", arg |-> 0, node |-> ListHead(List), outcome |-> "ok"]
    /\ UNCHANGED <<listHead, listElem, listNext, listAlloc, treeVars, nAlloc, live, res,
                   deleteVars, queueVars, heapVars, stackVars, containerVars>>

NextList ==
    \/ \E e \in ElemSet : ListInsertStep(e)
    \/ \E node \in ListNodes : ListDeleteStep(node)
    \/ \E e \in ElemSet : ListSearchStep(e)
    \/ ListHeadStep

SpecList == Init /\ [][NextList]_vars

----------------------------------------------------------------------------
(***************************************************************************)
(* Heap[int] of the heap package.  Go's buffer[i] is buffer[i + 1] here.   *)
(***************************************************************************)

\* Bounds of the heap and container runs: the longest slice and the greatest
\* value in it.
MaxSliceLen == 4
MaxNum == 3

NumSet == 1..MaxNum

\* The slices of at most MaxSliceLen numbers.
Slices == UNION {[1..m -> NumSet] : m \in 0..MaxSliceLen}

\* The Heap as one value, for the operators below.
Heap == [size |-> size, buffer |-> buffer]

SetHeap(h) ==
    /\ size' = h.size
    /\ buffer' = h.buffer

\* With(b): the heap over b, size len(b).
With(b) ==
    /\ size = Len(b)
    /\ buffer = b
    /\ hres = [op |-> "With", arg |-> 0]

LeftChild(index) == index * 2 + 1

RightChild(index) == index * 2 + 2

\* h.buffer[i], h.buffer[j] = h.buffer[j], h.buffer[i].
swap(h, i, j) ==
    [h EXCEPT !.buffer[i + 1] = h.buffer[j + 1], !.buffer[j + 1] = h.buffer[i + 1]]

\* MaxHeapify(index).
RECURSIVE MaxHeapify(_, _)
MaxHeapify(h, index) ==
    LET left == LeftChild(index)
        right == RightChild(index)
        first == IF left < h.size /\ h.buffer[left + 1] > h.buffer[index + 1]
                 THEN left ELSE index
        largest == IF right < h.size /\ h.buffer[right + 1] > h.buffer[first + 1]
                   THEN right ELSE first
    IN  IF largest # index
        THEN MaxHeapify(swap(h, index, largest), largest)
        ELSE h

\* The loop of BuildMaxHeap from i down: for ...; i > 0; i -= 1.
RECURSIVE BuildLoop(_, _)
BuildLoop(h, i) ==
    IF i > 0 THEN BuildLoop(MaxHeapify(h, i), i - 1) ELSE h

\* BuildMaxHeap(): the loop from len(h.buffer) / 2.
BuildMaxHeap(h) == BuildLoop(h, Len(h.buffer) \div 2)

\* The loop of Sort from i down.
RECURSIVE SortLoop(_, _)
SortLoop(h, i) ==
    IF i > 0
    THEN SortLoop(MaxHeapify([swap(h, 0, i) EXCEPT !.size = h.size - 1], 0), i - 1)
    ELSE h

\* Sort().
HeapSort(h) ==
    LET b == BuildMaxHeap(h)
    IN  SortLoop(b, b.size - 1)

BuildMaxHeapStep ==
    /\ SetHeap(BuildMaxHeap(Heap))
    /\ hres' = [op |-> "BuildMaxHeap", arg |-> 0]
    /\ UNCHANGED <<treeVars, nAlloc, live, res, deleteVars, queueVars,
                   listVars, stackVars, containerVars>>

SortStep ==
    /\ SetHeap(HeapSort(Heap))
    /\ hres' = [op |-> "Sort", arg |-> 0]
    /\ UNCHANGED <<treeVars, nAlloc, live, res, deleteVars, queueVars,
                   listVars, stackVars, containerVars>>

\* MaxHeapify(index) for an index of the heap.
MaxHeapifyStep(index) ==
    /\ index < size
    /\ SetHeap(MaxHeapify(Heap, index))
    /\ hres' = [op |-> "MaxHeapify", arg |-> index]
    /\ UNCHANGED <<treeVars, nAlloc, live, res, deleteVars, queueVars,
                   listVars, stackVars, containerVars>>

\* A heap made with some buffer.
InitHeap ==
    /\ EmptyTree /\ NoQueue /\ NoList /\ NoStack /\ NoContainer
    /\ \E b \in Slices : With(b)

NextHeap ==
    \/ BuildMaxHeapStep
    \/ SortStep
    \/ \E index \in 0..(MaxSliceLen - 1) : MaxHeapifyStep(index)

SpecHeap == InitHeap /\ [][NextHeap]_vars

----------------------------------------------------------------------------
(***************************************************************************)
(* SimpleStack[int] of stack.go.  Go's buf[i] is buf[i + 1] here.          *)
(***************************************************************************)

\* Bounds of the stack runs: the deepest stack and the greatest value pushed.
MaxStack == 4
MaxPushed == 3

PushSet == 1..MaxPushed

\* The SimpleStack as one value, for the operators below.
Stack == [buf |-> stackBuf, top |-> top]

SetStack(s) ==
    /\ stackBuf' = s.buf
    /\ top' = s.top

\* IsEmpty: s.top == 0.
StackIsEmpty(s) == s.top = 0

\* Push(e): s.top += 1; s.buf = append(s.buf, e).
Push(s, e) == [buf |-> Append(s.buf, e), top |-> s.top + 1]

\* Pop returning the bottom of the stack.
PopOldest(s) ==
    IF StackIsEmpty(s) THEN [s |-> s, val |-> 0, err |-> "underflow"]
    ELSE [s |-> [buf |-> SubSeq(s.buf, 1, s.top - 1), top |-> s.top - 1],
          val |-> s.buf[1],
          err |-> "nil"]

\* Pop(): the stack afterwards, the value pointed to and the error; an index
\* s.top - 1 that is not below len(s.buf) is a run-time panic.
Pop(s) ==
    IF StackIsEmpty(s) THEN [s |-> s, val |-> 0, err |-> "underflow"]
    ELSE IF s.top - 1 < Len(s.buf)
    THEN [s |-> [buf |-> SubSeq(s.buf, 1, s.top - 1), top |-> s.top - 1],
          val |-> s.buf[(s.top - 1) + 1],
          err |-> "nil"]
    ELSE [s |-> s, val |-> 0, err |-> "panic"]

StackRunning == sres.err # "panic"

PushStep(e) ==
    /\ StackRunning
    /\ top < MaxStack
    /\ SetStack(Push(Stack, e))
    /\ pushed' = Append(pushed, e)
    /\ sres' = [op |-> "Push", arg |-> e, val |-> 0, flag |-> FALSE, err |-> "nil"]
    /\ UNCHANGED <<treeVars, nAlloc, live, res, deleteVars, queueVars,
                   listVars, heapVars, containerVars>>

PopStep ==
    /\ StackRunning
    /\ SetStack(Pop(Stack).s)
    /\ pushed' = IF Pop(Stack).err = "nil" /\ pushed # <<>>
                 THEN SubSeq(pushed, 1, Len(pushed) - 1)
                 ELSE pushed
    /\ sres' = [op |-> "Pop", arg |-> 0, val |-> Pop(Stack).val, flag |-> FALSE,
                err |-> Pop(Stack).err]
    /\ UNCHANGED <<treeVars, nAlloc, live, res, deleteVars, queueVars,
                   listVars, heapVars, containerVars>>

StackIsEmptyStep ==
    /\ StackRunning
    /\ sres' = [op |-> "IsEmpty", arg |-> 0, val |-> 0, flag |-> StackIsEmpty(Stack),
                err |-> "nil"]
    /\ UNCHANGED <<stackBuf, top, pushed, treeVars, nAlloc, live, res, deleteVars,
                   queueVars, listVars, heapVars, containerVars>>

NextStack ==
    \/ \E e \in PushSet : PushStep(e)
    \/ PopStep
    \/ StackIsEmptyStep

SpecStack == Init /\ [][NextStack]_vars

----------------------------------------------------------------------------
(***************************************************************************)
(* The binary searches of Container[int] of container.go.  Go's values[i]  *)
(* is values[i + 1] here, and the indexes returned are Go's.               *)
(***************************************************************************)

\* The loop of BinSearch with low and high as they stand.
RECURSIVE BinLoop(_, _, _, _)
BinLoop(vs, needle, low, high) ==
    IF low <= high
    THEN LET mid == (low + high) \div 2
         IN  IF vs[mid + 1] = needle THEN mid
             ELSE IF vs[mid + 1] > needle
             THEN BinLoop(vs, needle, low, mid - 1)
             ELSE BinLoop(vs, needle, mid + 1, high)
    ELSE -1

\* BinSearch(needle).
BinSearch(vs, needle) ==
    IF Len(vs) = 0 THEN -1 ELSE BinLoop(vs, needle, 0, Len(vs) - 1)

\* The closure rec of RecBinSearch: values[mid+1:] is the slice from mid + 2
\* on here, values[:mid] the first mid elements; the index returned is an
\* index of the slice rec was called with.
RECURSIVE binRec(_, _)
binRec(vs, needle) ==
    IF Len(vs) = 0 THEN -1
    ELSE LET mid == (Len(vs) - 1) \div 2
         IN  IF needle = vs[mid + 1] THEN mid
             ELSE IF needle > vs[mid + 1]
             THEN binRec(SubSeq(vs, mid + 2, Len(vs)), needle)
             ELSE binRec(SubSeq(vs, 1, mid), needle)

\* RecBinSearch(needle).
RecBinSearch(vs, needle) == binRec(vs, needle)

BinSearchStep(needle) ==
    /\ cres' = [op |-> "BinSearch", needle |-> needle, index |-> BinSearch(values, needle)]
    /\ UNCHANGED <<values, treeVars, nAlloc, live, res, deleteVars, queueVars,
                   listVars, heapVars, stackVars>>

RecBinSearchStep(needle) ==
    /\ cres' = [op |-> "RecBinSearch", needle |-> needle, index |-> RecBinSearch(values, needle)]
    /\ UNCHANGED <<values, treeVars, nAlloc, live, res, deleteVars, queueVars,
                   listVars, heapVars, stackVars>>

\* A container made with some slice, sorted or not.
InitContainer ==
    /\ EmptyTree /\ NoQueue /\ NoList /\ NoHeap /\ NoStack
    /\ values \in Slices
    /\ cres = [op |-> "none", needle |-> 0, index |-> 0]

NextContainer ==
    \/ \E needle \in NumSet : BinSearchStep(needle)
    \/ \E needle \in NumSet : RecBinSearchStep(needle)

SpecContainer == InitContainer /\ [][NextContainer]_vars

----------------------------------------------------------------------------
\* The calls that change the tree: sequences of Insert and Delete alone.
NextInsertDelete ==
    \/ \E k \in KeySet : InsertStep(k)
    \/ \E k \in KeySet : DeleteStep(k)
    \/ \E k \in KeySet : DeletePanicStep(k)

\* Every call, the read-only ones between the Inserts and Deletes.
Next ==
    \/ \E k \in KeySet : InsertStep(k)
    \/ \E k \in KeySet : DeleteStep(k)
    \/ \E k \in KeySet : DeletePanicStep(k)
    \/ \E k \in KeySet : SearchStep(k)
    \/ \E k \in KeySet : SuccStep(k)
    \/ \E k \in KeySet : PredStep(k)
    \/ InOrderWalkStep

Spec == Init /\ [][Next]_vars

SpecInsertDelete == Init /\ [][NextInsertDelete]_vars

\* Every read-only call on the trees that up to MaxReadNodes Inserts, and
\* Deletes, build.
NextReadOnly ==
    \/ \E k \in KeySet : nAlloc < MaxReadNodes /\ InsertStep(k)
    \/ \E k \in KeySet : DeleteStep(k)
    \/ \E k \in KeySet : DeletePanicStep(k)
    \/ \E k \in KeySet : SearchStep(k)
    \/ \E k \in KeySet : RecursiveSearchStep(k)
    \/ \E k \in KeySet : SuccStep(k)
    \/ \E k \in KeySet : PredStep(k)
    \/ MinStep
    \/ MaxStep
    \/ InOrderWalkStep
    \/ PreOrderWalkStep
    \/ PostOrderWalkStep

SpecReadOnly == Init /\ [][NextReadOnly]_vars
----------------------------------------------------------------------------
(***************************************************************************)
(* What the properties below speak of: the nodes reachable from Root, the  *)
(* subtree under a node, the keys held.  These are set computations that   *)
(* end on any graph, so that they decide the shape of the structure        *)
(* instead of assuming it.                                                 *)
(***************************************************************************)
ChildrenOf(S) == ({Left[n] : n \in S} \cup {Right[n] : n \in S}) \ {Nil}

RECURSIVE Closure(_)
Closure(S) == IF ChildrenOf(S) \subseteq S THEN S ELSE Closure(S \cup ChildrenOf(S))

\* The nodes of the subtree under n, n included; none under the nil pointer.
Sub(n) == IF n = Nil THEN {} ELSE Closure({n})

Reachable == Sub(Root)

\* How many nodes of the set R hold key k.
KeyCountIn(R, k) == Cardinality({n \in R : Key[n] = k})

\* How many reachable nodes hold key k.
KeyCount(k) == KeyCountIn(Reachable, k)

ReachableKeys == {Key[n] : n \in Reachable}

DistinctKeys == \A k \in KeySet : KeyCount(k) <= 1

HasDuplicate == \E k \in KeySet : KeyCount(k) >= 2

RECURSIVE SumOver(_, _)
SumOver(f, S) ==
    IF S = {} THEN 0 ELSE LET x == CHOOSE x \in S : TRUE IN f[x] + SumOver(f, S \ {x})

\* Following Parent from n reaches Root within MaxNodes steps.
RECURSIVE ClimbsToRoot(_, _)
ClimbsToRoot(n, fuel) ==
    IF n = Root THEN TRUE
    ELSE IF fuel = 0 \/ Parent[n] = Nil THEN FALSE
    ELSE ClimbsToRoot(Parent[n], fuel - 1)

\* C1: in every state reached by Insert and Delete of present keys, duplicates
\* included, every key in the left subtree of a reachable node n is strictly
\* less than n's key and every key in its right subtree is greater or equal.
BSTOrdering ==
    \A n \in Reachable :
        /\ \A m \in Sub(Left[n]) : Key[m] < Key[n]
        /\ \A m \in Sub(Right[n]) : Key[m] >= Key[n]

\* C1's case: a Delete has just removed a node from a tree that still holds a
\* duplicate key below a node with two children.
BSTOrderingWitness ==
    /\ res.op = "Delete" /\ res.outcome = "ok"
    /\ HasDuplicate
    /\ \E n \in Reachable : Left[n] # Nil /\ Right[n] # Nil

\* C2: after every completed Insert or Delete, a present child of a reachable
\* node has that node as its Parent, and a present Root has no Parent.
ParentConsistency ==
    /\ \A n \in Reachable :
        /\ Left[n] # Nil => Parent[Left[n]] = n
        /\ Right[n] # Nil => Parent[Right[n]] = n
    /\ Root # Nil => Parent[Root] = Nil

\* C2's case: a Delete has completed and left a root with two children, one
\* of which has a child of its own.
ParentConsistencyWitness ==
    /\ res.op = "Delete" /\ res.outcome = "ok"
    /\ Root # Nil /\ Left[Root] # Nil /\ Right[Root] # Nil
    /\ \E c \in {Left[Root], Right[Root]} : Left[c] # Nil \/ Right[c] # Nil
\* C3: Delete(k) of a key that is not in the tree reports KeyNotFound as an
\* ordinary outcome and leaves Root and every node's key and links (and with
\* them the InOrderWalk output) unchanged.
DeleteAbsentFailsCleanly ==
    [][(res'.op = "Delete" /\ Search(Tree, res'.arg) = Nil)
          => (res'.outcome = "KeyNotFound" /\ UNCHANGED treeVars)]_vars

\* The least and the greatest of a non-empty set of keys.
Least(S) == CHOOSE k \in S : \A j \in S : k <= j

Greatest(S) == CHOOSE k \in S : \A j \in S : k >= j

\* The reachable node holding key k, in a tree of distinct keys that holds k.
NodeOf(k) == CHOOSE n \in Reachable : Key[n] = k

\* C4: in a tree of distinct keys, Succ(k) of a key k of the tree returns the
\* node holding the smallest key greater than k, and nil exactly when k is the
\* maximum; when k's node has a right child the result is the minimum node of
\* that right subtree.
SuccessorCorrect ==
    (res.op = "Succ" /\ DistinctKeys /\ res.arg \in ReachableKeys) =>
        LET greater == {k \in ReachableKeys : k > res.arg}
            n == NodeOf(res.arg)
        IN  /\ IF greater = {}
               THEN res.node = Nil
               ELSE res.node = NodeOf(Least(greater))
            /\ Right[n] # Nil =>
                  /\ res.node \in Sub(Right[n])
                  /\ \A m \in Sub(Right[n]) : Key[res.node] <= Key[m]

\* C5: in a tree of distinct keys, Pred(k) of a key k of the tree returns the
\* node holding the largest key smaller than k, and nil exactly when k is the
\* minimum; when k's node has a left child the result is the maximum node of
\* that left subtree.
PredecessorCorrect ==
    (res.op = "Pred" /\ DistinctKeys /\ res.arg \in ReachableKeys) =>
        LET smaller == {k \in ReachableKeys : k < res.arg}
            n == NodeOf(res.arg)
        IN  /\ IF smaller = {}
               THEN res.node = Nil
               ELSE res.node = NodeOf(Greatest(smaller))
            /\ Left[n] # Nil =>
                  /\ res.node \in Sub(Left[n])
                  /\ \A m \in Sub(Left[n]) : Key[res.node] >= Key[m]

\* C6: the multiset of keys held by the nodes reachable from Root is the
\* multiset of inserted keys minus that of deleted keys, so the node count is
\* the number of Inserts minus the number of successful Deletes; the node an
\* Insert made is in the tree with the inserted key, and the node a Delete
\* removed is out of it.
KeyAccounting ==
    LET R == Reachable
    IN  /\ \A k \in KeySet : KeyCountIn(R, k) = live[k]
        /\ \A n \in R : Key[n] \in KeySet
        /\ Cardinality(R) = SumOver(live, KeySet)
        /\ Cardinality(R) <= nAlloc
        /\ res.op = "Insert" => res.node \in R /\ Key[res.node] = res.arg
        /\ (res.op = "Delete" /\ res.outcome = "ok") => res.node \notin R

\* C6's case: a Delete has removed one of several nodes holding the same key
\* (another node still holds it) and three or more nodes remain.
KeyAccountingWitness ==
    /\ res.op = "Delete" /\ res.outcome = "ok"
    /\ KeyCount(res.arg) >= 1
    /\ Cardinality(Reachable) >= 3

\* C7: Search(k) returns a node of the tree whose key is k for every key that
\* was inserted and not yet deleted, and nil for every other key.
SearchFindsLiveKeys ==
    res.op = "Search" =>
        IF live[res.arg] > 0
        THEN res.node \in Reachable /\ Key[res.node] = res.arg
        ELSE res.node = Nil

\* C7's case: after some Delete, Search has found a key that two nodes hold,
\* and the node it found is not the root.
SearchFindsLiveKeysWitness ==
    /\ res.op = "Search" /\ res.node # Nil /\ res.node # Root
    /\ KeyCount(res.arg) >= 2
    /\ nAlloc > Cardinality(Reachable)

\* How many elements of the sequence q are k.
Occurrences(q, k) == Cardinality({i \in 1..Len(q) : q[i] = k})

\* C8: InOrderWalk returns the keys in non-decreasing order, each reachable
\* node's key exactly once.
InOrderWalkSorted ==
    res.op = "InOrderWalk" =>
        /\ \A i \in 1..(Len(res.keys) - 1) : res.keys[i] <= res.keys[i + 1]
        /\ Len(res.keys) = Cardinality(Reachable)
        /\ \A n \in Reachable : Key[n] \in KeySet
        /\ \A k \in KeySet : Occurrences(res.keys, k) = KeyCount(k)

\* C8's case: a walk over four or more nodes with a duplicate key, after
\* Inserts and at least one Delete.
InOrderWalkSortedWitness ==
    /\ res.op = "InOrderWalk"
    /\ Len(res.keys) >= 4
    /\ HasDuplicate
    /\ nAlloc > Cardinality(Reachable)

\* C9: in a tree of distinct keys, for a key k of the tree that is not the
\* maximum, Pred of the key of the node Succ(k) returned is the node holding k.
SuccPredRoundTrip ==
    (/\ res.op = "Succ" /\ DistinctKeys
     /\ res.arg \in ReachableKeys /\ res.arg # Greatest(ReachableKeys)) =>
        /\ res.node # Nil
        /\ Pred(Tree, Key[res.node]) = NodeOf(res.arg)

\* The (parent, side) slots among the nodes of R that hold c.
SlotsHolding(R, c) ==
    {<<p, "Left">> : p \in {q \in R : Left[q] = c}}
        \cup {<<p, "Right">> : p \in {q \in R : Right[q] = c}}

\* C10: what is reachable from Root through Left/Right is a tree: no node is
\* held by two child slots, Root by none, no node is below itself, and the
\* Parent links of every node lead to Root.
TreeShape ==
    LET R == Reachable
    IN  /\ \A c \in R : Cardinality(SlotsHolding(R, c)) <= 1
        /\ Root # Nil => SlotsHolding(R, Root) = {}
        /\ \A n \in R : n \notin Sub(Left[n]) \cup Sub(Right[n])
        /\ \A n \in R : ClimbsToRoot(n, MaxNodes)

\* C10's case: a Delete has completed and left at least four nodes, one of
\* them at depth two or more.
TreeShapeWitness ==
    /\ res.op = "Delete" /\ res.outcome = "ok"
    /\ Cardinality(Reachable) >= 4
    /\ \E n \in Reachable : Parent[n] # Nil /\ Parent[Parent[n]] # Nil
\* C11: RecursiveSearch(key) returns the very node, or nil, that Search(key)
\* returns, on every tree Insert and Delete build, duplicates included.
RecursiveSearchAgrees ==
    /\ res.op = "RecursiveSearch" => res.node = Search(Tree, res.arg)
    /\ res.op = "Search" => res.node = RecursiveSearch(Tree, res.arg)

\* C11's case: after some Delete, RecursiveSearch has found, below the root,
\* a key that two nodes hold.
RecursiveSearchAgreesWitness ==
    /\ res.op = "RecursiveSearch" /\ res.node # Nil /\ res.node # Root
    /\ KeyCount(res.arg) >= 2
    /\ nAlloc > Cardinality(Reachable)

\* C12: after Delete(k) of a present key has returned, Root is not the removed
\* node and no node reachable from Root has Left, Right or Parent pointing to it.
RemovedNodeUnlinked ==
    (res.op = "Delete" /\ res.outcome = "ok") =>
        /\ Root # res.node
        /\ \A m \in Reachable : res.node \notin {Left[m], Right[m], Parent[m]}

\* C12's case: a Delete has removed a node allocated before the present root
\* and before both of the root's children, which are present.
RemovedNodeUnlinkedWitness ==
    /\ res.op = "Delete" /\ res.outcome = "ok"
    /\ Root # Nil /\ Left[Root] # Nil /\ Right[Root] # Nil
    /\ res.node < Root /\ res.node < Left[Root] /\ res.node < Right[Root]

MinMaxCorrect ==
    /\ res.op = "Min" =>
          IF Root = Nil THEN res.node = Nil
          ELSE res.node \in Reachable /\ \A m \in Reachable : Key[res.node] <= Key[m]
    /\ res.op = "Max" =>
          IF Root = Nil THEN res.node = Nil
          ELSE res.node \in Reachable /\ \A m \in Reachable : Key[res.node] >= Key[m]

\* C14's case: after some Delete, Min() has returned a node two levels below
\* the root of a tree that holds more than one key.
MinMaxCorrectWitness ==
    /\ res.op = "Min" /\ res.node # Nil
    /\ Parent[res.node] # Nil /\ Parent[Parent[res.node]] # Nil
    /\ nAlloc > Cardinality(Reachable)

ReadOnlyOps ==
    {"InOrderWalk", "PreOrderWalk", "PostOrderWalk", "Search", "RecursiveSearch",
     "Min", "Max", "Succ", "Pred"}

----------------------------------------------------------------------------
\* Delete has taken y out of its place and not yet put it in n's: between
\* transplant(y, y.Right) and transplant(n, y).
YDetached == pc \in {"detached", "rightSet"} \/ (pc = "replace" /\ Right[dn] # dy)

\* C16: Delete is not atomic for a thread that reads the tree between two of
\* its statements.  In the two-children case, from transplant(y, y.Right) to
\* transplant(n, y) the node y, which Delete(k) does not remove, cannot be
\* reached from Root, so its key, when it is not k, has fewer reachable
\* copies than were inserted and not deleted; once y.Right.Parent = y has
\* run, n is still in the tree and its right child's Parent is not n.  After
\* transplant(n, y) the left subtree of n is unreachable and its root's key
\* is missing; after y.Left = n.Left the left child of y has a Parent that
\* is not y.
DeleteNotAtomic ==
    /\ YDetached =>
          /\ dn \in Reachable
          /\ dy \notin Reachable
          /\ Key[dy] # Key[dn] => KeyCount(Key[dy]) < live[Key[dy]]
    /\ (pc = "replace" /\ Right[dn] # dy) => Parent[Right[dn]] # dn
    /\ pc = "replaced" =>
          /\ Left[dn] # Nil
          /\ Left[dn] \notin Reachable
          /\ Key[Left[dn]] # Key[dn]
          /\ KeyCount(Key[Left[dn]]) < live[Key[Left[dn]]]
    /\ pc = "leftSet" =>
          /\ dy \in Reachable
          /\ Parent[Left[dy]] # dy

\* The other thread has called Search between transplant(y, y.Right) and
\* transplant(n, y) for the key of y, a key that was inserted once, never
\* deleted and is not the key being deleted, and Search has returned nil.
DeleteNotAtomicWitness ==
    /\ YDetached
    /\ res.op = "Search"
    /\ res.arg = Key[dy]
    /\ res.node = Nil
    /\ Key[dy] # Key[dn]
    /\ live[Key[dy]] = 1

----------------------------------------------------------------------------
\* C17: BoundedQueue is FIFO: a Dequeue that returns no error returns the
\* oldest value Enqueue accepted that no Dequeue has returned yet, and there
\* is such a value.
QueueFIFO ==
    [][(DequeueStep /\ qres'.err = "nil") =>
          /\ items # <<>>
          /\ qres'.val = Head(items)]_vars

\* The queue holds exactly cap items.
HoldsCap == Len(items) = cap

\* C18: the capacity bound: IsFull is true exactly when the queue holds cap
\* items; 0 <= len <= cap; head and tail are in [0, cap); the buffer has at
\* most cap slots; and Enqueue on a full queue returns an error and leaves
\* head, tail, len and the buffer as they were.
QueueCapacityBound ==
    /\ [](/\ IsFull(Queue) <=> HoldsCap
          /\ 0 <= len /\ len <= cap
          /\ 0 <= head /\ head < cap
          /\ 0 <= tail /\ tail < cap
          /\ Len(buf) <= cap)
    /\ [][\A elem \in ValSet :
            (EnqueueStep(elem) /\ HoldsCap) =>
               /\ qres'.err \notin {"nil", "panic"}
               /\ UNCHANGED <<head, tail, len, buf>>]_vars

\* C19: the observers agree with the item count: Len() has returned the
\* number of items in the queue and IsEmpty() has returned true exactly when
\* that number is 0.
QueueObserversAgree ==
    /\ qres.op = "Len" => qres.val = Len(items)
    /\ qres.op = "IsEmpty" => (qres.flag <=> items = <<>>)

\* C20: Dequeue on a queue that holds no items returns the "underflow" error
\* and the zero value, does not fail on an index, and leaves head, tail and
\* len unchanged, so that len is not negative.
QueueDequeueEmptyUnderflows ==
    [][(DequeueStep /\ items = <<>>) =>
          /\ qres'.err = "underflow"
          /\ qres'.val = 0
          /\ UNCHANGED <<head, tail, len>>
          /\ len' >= 0]_vars

----------------------------------------------------------------------------
\* The nodes of the list, from Head() on.
ListCells == ListFrom(List, listHead)

\* The elements held by the nodes of the list.
ListElems == {listElem[ListCells[i]] : i \in DOMAIN ListCells}

\* C21: List.Delete(node) takes the node out of the list: for a node of the
\* list, at the head, in the middle or at the tail, after Delete(node) the
\* nodes reachable from Head() are those reachable before without the node,
\* in the same order.
ListDeleteRemoves ==
    [][\A node \in ListNodes :
          ListDeleteStep(node) =>
             ListCells' = SelectSeq(ListCells, LAMBDA c : c # node)]_vars

\* C22: List.Search(e) has returned without failing, a node of the list that
\* holds e when a node of the list holds e, and nil when none does.
ListSearchFinds ==
    lres.op = "Search" =>
       /\ lres.outcome = "ok"
       /\ IF lres.arg \in ListElems
          THEN /\ lres.node # Nil
               /\ \E i \in DOMAIN ListCells : ListCells[i] = lres.node
               /\ listElem[lres.node] = lres.arg
          ELSE lres.node = Nil

----------------------------------------------------------------------------
\* How many times v is in the slice s.
CountIn(s, v) == Cardinality({i \in DOMAIN s : s[i] = v})

\* s is a permutation of t.
IsPermutation(s, t) ==
    /\ Len(s) = Len(t)
    /\ \A v \in NumSet : CountIn(s, v) = CountIn(t, v)

\* s is in non-decreasing order.
IsSorted(s) == \A i \in 1..(Len(s) - 1) : s[i] <= s[i + 1]

\* C23: BuildMaxHeap on a heap just made with a buffer leaves a permutation
\* of the buffer in which every index i with 0 < i < size has
\* buffer[(i-1)/2] >= buffer[i].
BuildMaxHeapEstablishes ==
    [][(BuildMaxHeapStep /\ hres.op = "With") =>
          /\ IsPermutation(buffer', buffer)
          /\ \A i \in 1..(size' - 1) : buffer'[((i - 1) \div 2) + 1] >= buffer'[i + 1]]_vars

\* C24: Sort on a heap just made with a buffer leaves a permutation of the
\* buffer in non-decreasing order.
HeapSortSorts ==
    [][(SortStep /\ hres.op = "With") =>
          /\ IsPermutation(buffer', buffer)
          /\ IsSorted(buffer')]_vars

----------------------------------------------------------------------------
\* C25: SimpleStack is LIFO with a clean underflow.  In every state top is
\* len(buf), IsEmpty() is true exactly when no value is stored, and the
\* answer IsEmpty() has just given is that; a Pop of a stack that stores
\* values returns no error and the value pushed last among them, and
\* removes it; a Pop of the empty stack returns the underflow error and
\* leaves buf and top as they were.
StackLIFO ==
    /\ [](/\ top = Len(stackBuf)
          /\ StackIsEmpty(Stack) <=> pushed = <<>>
          /\ sres.op = "IsEmpty" => (sres.flag <=> pushed = <<>>))
    /\ [][PopStep =>
            IF pushed = <<>>
            THEN /\ sres'.err = "underflow"
                 /\ UNCHANGED <<stackBuf, top>>
            ELSE /\ sres'.err = "nil"
                 /\ sres'.val = pushed[Len(pushed)]
                 /\ pushed' = SubSeq(pushed, 1, Len(pushed) - 1)
                 /\ stackBuf' = pushed']_vars

\* Pop has returned the value pushed last, and an older, different value is
\* still stored under it.
StackLIFOWitness ==
    /\ sres.op = "Pop"
    /\ sres.err = "nil"
    /\ pushed # <<>>
    /\ sres.val # pushed[Len(pushed)]
    /\ Len(stackBuf) = Len(pushed)

----------------------------------------------------------------------------
\* No value is twice in the slice s.
DuplicateFree(s) == \A i, j \in DOMAIN s : s[i] = s[j] => i = j

\* C26: RecBinSearch on a sorted container has returned an index of the
\* container: an index at which the needle is, the one BinSearch returns
\* when no value is there twice, if the needle is in the container, and -1
\* if it is not.
RecBinSearchIndex ==
    (cres.op = "RecBinSearch" /\ IsSorted(values)) =>
       IF \E i \in DOMAIN values : values[i] = cres.needle
       THEN /\ cres.index \in 0..(Len(values) - 1)
            /\ values[cres.index + 1] = cres.needle
            /\ DuplicateFree(values) => cres.index = BinSearch(values, cres.needle)
       ELSE cres.index = -1

----------------------------------------------------------------------------
\* C27: Delete(k) of a node n with two children puts y, the minimum of the
\* subtree of n.Right, in the place of n: y takes the slot n had (under n's
\* parent, or as Root), y.Left is n's left child, y.Right is n's right
\* subtree without y (y keeps its right child when it is n.Right; else
\* y.Right is n.Right and y's right child takes the slot y had), the Parent
\* links follow, and every other node keeps its key and its children.
DeleteTwoChildrenMovesSuccessor ==
    [][\A k \in KeySet :
          LET n == Search(Tree, k)
              y == min(Tree, Right[n])
              p == Parent[n]
              q == Parent[y]
          IN  (DeleteStep(k) /\ Left[n] # Nil /\ Right[n] # Nil) =>
                 /\ IF p = Nil
                    THEN Root' = y
                    ELSE /\ Root' = Root
                         /\ Left'[p] = (IF Left[p] = n THEN y ELSE Left[p])
                         /\ Right'[p] = (IF Right[p] = n THEN y ELSE Right[p])
                 /\ Parent'[y] = p
                 /\ Left'[y] = Left[n]
                 /\ Parent'[Left[n]] = y
                 /\ IF y = Right[n]
                    THEN Right'[y] = Right[y]
                    ELSE /\ Right'[y] = Right[n]
                         /\ Parent'[Right[n]] = y
                         /\ Left'[q] = Right[y]
                         /\ Right'[q] = Right[q]
                         /\ Right[y] # Nil => Parent'[Right[y]] = q
                 /\ \A m \in Reachable \ {n} : Key'[m] = Key[m]
                 /\ \A m \in Reachable \ {n, y, p, q} :
                       Left'[m] = Left[m] /\ Right'[m] = Right[m]]_vars

\* C27's case: the one Delete so far has put at the root a node y allocated
\* after its present right child, so y was below n.Right, and the left slot
\* under that child, where y was, now holds the right child y had.
DeleteTwoChildrenWitness ==
    /\ res.op = "Delete" /\ res.outcome = "ok"
    /\ Cardinality(Reachable) = nAlloc - 1
    /\ Root # Nil /\ Left[Root] # Nil /\ Right[Root] # Nil
    /\ Right[Root] < Root
    /\ Left[Right[Root]] > Root

\* C28: Insert(key) adds one fresh leaf and nothing else: the new node has
\* the key, no children, and for Parent the last node of the descent; on the
\* empty tree it becomes Root; otherwise Root stays and the node fills one
\* child slot of its parent that was nil, the left one when the parent's key
\* is greater than the key and the right one otherwise; every node that
\* existed keeps its Key and Parent, and its Left and Right but for that
\* slot.
InsertAddsOneLeaf ==
    [][\A k \in KeySet :
          LET n == nAlloc + 1
              parent == InsertDescend(Tree, Root, Nil, k)
          IN  InsertStep(k) =>
                 /\ n \notin Reachable
                 /\ Key'[n] = k /\ Left'[n] = Nil /\ Right'[n] = Nil
                 /\ Parent'[n] = parent
                 /\ (Root = Nil) <=> (parent = Nil)
                 /\ IF Root = Nil
                    THEN Root' = n
                    ELSE /\ Root' = Root
                         /\ parent \in Reachable
                         /\ IF Key[parent] > k
                            THEN /\ Left[parent] = Nil /\ Left'[parent] = n
                                 /\ Right'[parent] = Right[parent]
                            ELSE /\ Right[parent] = Nil /\ Right'[parent] = n
                                 /\ Left'[parent] = Left[parent]
                 /\ \A m \in Nodes \ {n} :
                       /\ Key'[m] = Key[m]
                       /\ Parent'[m] = Parent[m]
                       /\ m # parent => (Left'[m] = Left[m] /\ Right'[m] = Right[m])]_vars

\* C28's case: Insert has just hung a node with a key equal to its parent's
\* in the parent's right slot, two levels or more below the root.
InsertAddsOneLeafWitness ==
    /\ res.op = "Insert"
    /\ Parent[res.node] # Nil
    /\ Key[Parent[res.node]] = Key[res.node]
    /\ Right[Parent[res.node]] = res.node
    /\ Left[Parent[res.node]] = Nil
    /\ Parent[Parent[res.node]] # Nil
    /\ Left[res.node] = Nil /\ Right[res.node] = Nil

====
